---------------------------- MODULE Spec2Model ----------------------------
(***************************************************************************)
(* Model of DataCloudMemoryStore (src/src/main/dcmem.py): the Mem0 vector  *)
(* store adapter that writes through Data Cloud's ingestion client and     *)
(* reads through its query service client.                                 *)
(*                                                                         *)
(* Python values are modelled as tagged records so that values of          *)
(* different Python types are comparable (and unequal):                    *)
(*   None -> [none |-> TRUE]      str   -> [str |-> s]                     *)
(*   list -> [list |-> <<..>>]    tuple -> [tuple |-> <<..>>]              *)
(* A dict is a function from keys to values.  The text of a str that is    *)
(* formatted into other text (a configured name, the query) is a sequence  *)
(* of tokens, as is the text built from it (the SQL text, a timestamp);    *)
(* ids and payload texts, which are only copied, are atoms.                *)
(***************************************************************************)
EXTENDS Integers, Sequences, FiniteSets, TLC

VARIABLES
    args,    \* the arguments __init__ was called with
    self,    \* the adapter's attributes
    clock,   \* the wall clock datetime.now() reads
    last     \* the call that has just ended and whose outcome the caller has
             \* not taken yet (its inputs, its outcome, the requests it issued
             \* to the two collaborators), or NoCall

vars == <<args, self, clock, last>>

----------------------------------------------------------------------------
(* Python values *)

None == [none |-> TRUE]

Str(s) == [str |-> s]

List(items) == [list |-> items]

Tuple(items) == [tuple |-> items]

IsList(v) == DOMAIN v = {"list"}

\* Truthy with the test `payloads is None` in place of `not payloads`
TruthyNotNone(v) == IsList(v)

\* bool(v) for the values insert tests: None and the empty list are falsy
Truthy(v) == IsList(v) /\ Len(v.list) > 0

\* how a call ends
Return(v) == [kind |-> "return", value |-> v]

Raise(e) == [kind |-> "raise", exc |-> e]

----------------------------------------------------------------------------
(* Bounds and input sets *)

\* longest payloads / ids list passed to insert
MaxLen == 2

\* most rows the read collaborator returns
MaxRows == 2

SeqsUpTo(S, n) == UNION {[1..k -> S] : k \in 0..n}

\* constructor arguments: the defaults of __init__ and a custom naming
DefaultArgs ==
    [connector_name |-> Str(<<"mem0">>),
     dlo |-> Str(<<"AgentMemory">>),
     vector_index_dlm |-> Str(<<"AgentMemory_index_dlm">>),
     chunk_dlm |-> Str(<<"AgentMemory_chunk_dlm">>)]

CtorArgs ==
    {DefaultArgs,
     [connector_name |-> Str(<<"conn2">>),
      dlo |-> Str(<<"Notes">>),
      vector_index_dlm |-> Str(<<"Notes_index_dlm">>),
      chunk_dlm |-> Str(<<"Notes_chunk_dlm">>)]}

\* failures a collaborator may raise
Errors == {"ConnectionError", "HTTPError"}

\* what a collaborator call does: completes, or raises one of Errors
Outcomes == {"ok"} \cup Errors

----------------------------------------------------------------------------
(* __init__ *)

\* self.dlo = dlo,   -- the trailing comma builds a one-element tuple
DataCloudMemoryStore_init(a) ==
    [connector_name |-> a.connector_name,
     dlo |-> Tuple(<<a.dlo>>),
     vector_index_dlm |-> a.vector_index_dlm,
     chunk_dlm |-> a.chunk_dlm]

\* no call is waiting for the caller
NoCall == [op |-> "none", result |-> Return(None), writes |-> <<>>, reads |-> <<>>]

----------------------------------------------------------------------------
(* Text formatting *)

Min(a, b) == IF a <= b THEN a ELSE b

DigitChars == <<"0", "1", "2", "3", "4", "5", "6", "7", "8", "9">>

\* the decimal digits of a natural number, most significant first
RECURSIVE Digits(_)
Digits(n) ==
    IF n < 10 THEN <<DigitChars[n + 1]>>
    ELSE Append(Digits(n \div 10), DigitChars[(n % 10) + 1])

\* str(n) / format(n, "") for an int, as an f-string field renders it
IntToText(n) == IF n < 0 THEN <<"-">> \o Digits(0 - n) ELSE Digits(n)

\* a zero-padded two-digit field (%m, %H, %M, %S)
Pad2(n) == IF n < 10 THEN <<"0">> \o Digits(n) ELSE Digits(n)

\* datetime.strftime("%Y-%m%-d %H:%M:%S"): %-d is the day without padding
\* and nothing separates it from the month
strftime(t) ==
    Digits(t.Y) \o <<"-">> \o Pad2(t.m) \o Digits(t.d) \o <<" ">>
        \o Pad2(t.H) \o <<":">> \o Pad2(t.M) \o <<":">> \o Pad2(t.S)

\* the instants datetime.now() may return, in order
Times ==
    <<[Y |-> 2026, m |-> 11, d |-> 2, H |-> 9, M |-> 5, S |-> 59],
      [Y |-> 2026, m |-> 11, d |-> 2, H |-> 9, M |-> 6, S |-> 0]>>

\* strftime of each instant
Stamp == [i \in 1..Len(Times) |-> strftime(Times[i])]

\* the readings of n successive datetime.now() calls made no earlier than
\* instant c: a nondecreasing sequence of indexes into Times
Readings(c, n) ==
    {r \in [1..n -> c..Len(Times)] : \A i \in 1..n : \A j \in i..n : r[i] <= r[j]}

----------------------------------------------------------------------------
(* insert *)

\* the dicts a caller passes as payloads: two with a `data` field, one without
PayloadValues == {[data |-> "a"], [data |-> "b"], [note |-> "n"]}

IdValues == {"1", "2"}

VectorArgs == {List(<<>>), List(<<<<1, 0>>>>)}

PayloadArgs == {None} \cup {List(p) : p \in SeqsUpTo(PayloadValues, MaxLen)}

IdArgs == {None} \cup {List(i) : i \in SeqsUpTo(IdValues, MaxLen)}

\* zip that gives up on sequences of different lengths
zipEqualOnly(a, b) ==
    IF Len(a) = Len(b) THEN [i \in 1..Len(a) |-> <<a[i], b[i]>>] ELSE <<>>

\* zip(a, b): pairs up to the shorter of the two sequences
zip(a, b) == [i \in 1..Min(Len(a), Len(b)) |-> <<a[i], b[i]>>]

\* combines_items that takes every text from the first payload
combinesFirstText(pairs) ==
    [i \in 1..Len(pairs) |-> [text |-> pairs[1][1]["data"], id |-> pairs[i][2]]]

\* [{'text': data_obj['data'], 'id': id_val} for data_obj, id_val in zip(..)]
combines_items(pairs) ==
    [i \in 1..Len(pairs) |-> [text |-> pairs[i][1]["data"], id |-> pairs[i][2]]]

\* the loop that builds `data`; nows[i] is the clock reading of iteration i
BuildData(items, nows) ==
    [i \in 1..Len(items) |->
        [id |-> items[i].id,
         memory |-> items[i].text,
         createdAt |-> Stamp[nows[i]]]]

\* self.ingestion_client.ingest_data(request_object, connector_name, dlo)
ingest_data(request_object, connector_name, dlo) ==
    [request_object |-> request_object,
     connector_name |-> connector_name,
     dlo |-> dlo]

\* what a call leaves behind: the attributes of the adapter, how the call
\* ended, the requests it issued, the number of clock readings it took
Effect(slf, result, writes, reads, readings) ==
    [self |-> slf, result |-> result, writes |-> writes, reads |-> reads,
     readings |-> readings]

\* insert that sends each record as soon as it is built: the records before
\* a payload without `data` are submitted before the KeyError
insertEager(slf, vectors, payloads, ids, nows, outcome) ==
    IF ~(IsList(payloads) /\ Len(payloads.list) > 0)
    THEN Effect(slf, Return(List(<<>>)), <<>>, <<>>, 0)
    ELSE IF ~IsList(ids)
    THEN Effect(slf, Raise("TypeError"), <<>>, <<>>, 0)
    ELSE LET n == IF Len(payloads.list) <= Len(ids.list)
                  THEN Len(payloads.list) ELSE Len(ids.list)
             bad == {i \in 1..n : "data" \notin DOMAIN payloads.list[i]}
             k == IF bad = {} THEN n
                  ELSE (CHOOSE i \in bad : \A j \in bad : i <= j) - 1
             data == [i \in 1..k |->
                        [id |-> ids.list[i],
                         memory |-> payloads.list[i]["data"],
                         createdAt |-> Stamp[nows[i]]]]
             sent == [request_object |-> [data |-> data],
                      connector_name |-> slf.connector_name,
                      dlo |-> slf.dlo]
         IN Effect(slf,
                   IF bad # {} THEN Raise("KeyError")
                   ELSE IF outcome = "ok" THEN Return(ids) ELSE Raise(outcome),
                   IF k = 0 /\ bad # {} THEN <<>> ELSE <<sent>>,
                   <<>>, k)

\* insert(vectors, payloads, ids); nows are the clock readings it may take,
\* outcome is what the write collaborator does with the request
insert(slf, vectors, payloads, ids, nows, outcome) ==
    IF ~Truthy(payloads)
    THEN Effect(slf, Return(List(<<>>)), <<>>, <<>>, 0)
    ELSE IF ~IsList(ids)
    THEN Effect(slf, Raise("TypeError"), <<>>, <<>>, 0)
    ELSE LET pairs == zip(payloads.list, ids.list) IN
         IF \E i \in 1..Len(pairs) : "data" \notin DOMAIN pairs[i][1]
         THEN Effect(slf, Raise("KeyError"), <<>>, <<>>, 0)
         ELSE LET data == BuildData(combines_items(pairs), nows)
                  request_object == [data |-> data]
                  sent == ingest_data(request_object, slf.connector_name, slf.dlo)
              IN Effect(slf,
                        IF outcome = "ok" THEN Return(ids) ELSE Raise(outcome),
                        <<sent>>, <<>>, Len(data))

----------------------------------------------------------------------------
(* search *)

QueryArgs == {Str(<<"hello">>), Str(<<"it", "'", "s">>)}

LimitArgs == {1, 3, 12}

FilterArgs == {None, [user_id |-> "u1"]}

\* The str object a row's payload is.  `'null'` in the source is an interned
\* constant; a str with the text null that the collaborator built at run
\* time (parsed from the response) is another object, one that came from a
\* constant of its own code is the same object.  Which of the two a row
\* carries is the collaborator's business.
NullLiteral == [text |-> "null", obj |-> "interned"]

Fresh(text) == [text |-> text, obj |-> "fresh"]

\* the rows the read collaborator may return; score is in hundredths
RowValues ==
    {[id |-> "1", score |-> 12, payload |-> Fresh("memo a")],
     [id |-> "2", score |-> 30, payload |-> Fresh("memo b")],
     [id |-> "3", score |-> 95, payload |-> Fresh("null")],
     [id |-> "3", score |-> 95, payload |-> NullLiteral]}

ResponseValues == SeqsUpTo(RowValues, MaxRows)

\* a is not b, for two str objects: identity, not equality of the text
is_not(a, b) == ~(a.obj = "interned" /\ b.obj = "interned" /\ a.text = b.text)

\* the f-string with the limit left at its default instead of interpolated
sqlDefaultLimit(slf, query, limit) ==
    <<"SELECT index.RecordId__c, index.score__c, chunk.Chunk__c FROM vector_search(TABLE(">>
        \o slf.vector_index_dlm.str \o <<"), '">>
        \o query.str \o <<"', '', ">>
        \o <<"1">> \o <<") AS index JOIN ">>
        \o slf.chunk_dlm.str
        \o <<" AS chunk ON index.RecordId__c = chunk.RecordId__c">>

\* the f-string of search
sql(slf, query, limit) ==
    <<"SELECT index.RecordId__c, index.score__c, chunk.Chunk__c FROM vector_search(TABLE(">>
        \o slf.vector_index_dlm.str \o <<"), '">>
        \o query.str \o <<"', '', ">>
        \o IntToText(limit) \o <<") AS index JOIN ">>
        \o slf.chunk_dlm.str
        \o <<" AS chunk ON index.RecordId__c = chunk.RecordId__c">>

OutputData(id, score, payload) == [id |-> id, score |-> score, payload |-> payload]

\* the loop over the response: the rows that pass the test, in order
RECURSIVE BuildOutput(_)
BuildOutput(response) ==
    IF response = <<>> THEN <<>>
    ELSE LET item == Head(response) IN
         (IF is_not(item.payload, NullLiteral)
          THEN <<OutputData(item.id, item.score, [data |-> item.payload])>>
          ELSE <<>>)
         \o BuildOutput(Tail(response))

\* search that catches the read collaborator's failure and returns no rows
searchSwallow(slf, query, vectors, limit, filters, outcome, response) ==
    Effect(slf,
           IF outcome = "ok" THEN Return(List(BuildOutput(response)))
           ELSE Return(List(<<>>)),
           <<>>,
           <<[sql |-> sql(slf, query, limit)]>>,
           0)

\* search(query, vectors, limit, filters); outcome is what the read
\* collaborator does with the request, response the rows it returns
search(slf, query, vectors, limit, filters, outcome, response) ==
    LET request_obj == [sql |-> sql(slf, query, limit)] IN
    Effect(slf,
           IF outcome = "ok" THEN Return(List(BuildOutput(response)))
           ELSE Raise(outcome),
           <<>>, <<request_obj>>, 0)

----------------------------------------------------------------------------
(* list_cols and the no-ops *)

list_cols(slf) == Effect(slf, Return(List(<<slf.dlo>>)), <<>>, <<>>, 0)

\* a body of `pass`
Pass(slf) == Effect(slf, Return(None), <<>>, <<>>, 0)

create_col(slf, name, vector_size, distance) == Pass(slf)

delete(slf, vector_id) == Pass(slf)

delete_col(slf) == Pass(slf)

col_info(slf) == Pass(slf)

get(slf, vector_id) == Pass(slf)

list(slf, filters, limit) == Pass(slf)

\* reset that puts the default names back
resetToDefaults(slf) ==
    Effect([connector_name |-> Str(<<"mem0">>),
            dlo |-> Tuple(<<Str(<<"AgentMemory">>)>>),
            vector_index_dlm |-> Str(<<"AgentMemory_index_dlm">>),
            chunk_dlm |-> Str(<<"AgentMemory_chunk_dlm">>)],
           Return(None), <<>>, <<>>, 0)

reset(slf) == Pass(slf)

update(slf, vector_id, vector, payload) == Pass(slf)

NoOps ==
    {"create_col", "delete", "delete_col", "col_info", "get", "list", "reset",
     "update"}

----------------------------------------------------------------------------
(* Actions *)

Init ==
    /\ args \in CtorArgs
    /\ self = DataCloudMemoryStore_init(args)
    /\ clock = 1
    /\ last = NoCall

\* the call ends: its effect on the adapter, and what the caller gets
Ended(op, in, out) ==
    /\ self' = out.self
    /\ last' = [op |-> op, in |-> in, result |-> out.result,
                writes |-> out.writes, reads |-> out.reads]

Insert ==
    /\ last = NoCall
    /\ \E vectors \in VectorArgs, payloads \in PayloadArgs, ids \in IdArgs,
          outcome \in Outcomes :
         \E nows \in Readings(clock, MaxLen) :
           LET out == insert(self, vectors, payloads, ids, nows, outcome) IN
           /\ Ended("insert",
                    [vectors |-> vectors, payloads |-> payloads, ids |-> ids,
                     outcome |-> outcome],
                    out)
           /\ clock' = IF out.readings = 0 THEN clock ELSE nows[out.readings]
    /\ UNCHANGED args

Search ==
    /\ last = NoCall
    /\ \E query \in QueryArgs, vectors \in VectorArgs, limit \in LimitArgs,
          filters \in FilterArgs, outcome \in Outcomes,
          response \in ResponseValues :
         Ended("search",
                       [query |-> query, vectors |-> vectors, limit |-> limit,
                        filters |-> filters, outcome |-> outcome,
                        response |-> response],
                       search(self, query, vectors, limit, filters, outcome,
                              response))
    /\ UNCHANGED <<args, clock>>

ListCols ==
    /\ last = NoCall
    /\ Ended("list_cols", <<>>, list_cols(self))
    /\ UNCHANGED <<args, clock>>

CreateCol ==
    /\ last = NoCall
    /\ \E name \in {"AgentMemory", "other"}, vector_size \in {0, 1536},
          distance \in {"cosine", "l2"} :
         Ended("create_col", <<name, vector_size, distance>>,
                       create_col(self, name, vector_size, distance))
    /\ UNCHANGED <<args, clock>>

Delete ==
    /\ last = NoCall
    /\ \E vector_id \in IdValues :
         Ended("delete", <<vector_id>>, delete(self, vector_id))
    /\ UNCHANGED <<args, clock>>

DeleteCol ==
    /\ last = NoCall
    /\ Ended("delete_col", <<>>, delete_col(self))
    /\ UNCHANGED <<args, clock>>

ColInfo ==
    /\ last = NoCall
    /\ Ended("col_info", <<>>, col_info(self))
    /\ UNCHANGED <<args, clock>>

Get ==
    /\ last = NoCall
    /\ \E vector_id \in IdValues :
         Ended("get", <<vector_id>>, get(self, vector_id))
    /\ UNCHANGED <<args, clock>>

ListOp ==
    /\ last = NoCall
    /\ \E filters \in FilterArgs, limit \in LimitArgs :
         Ended("list", <<filters, limit>>, list(self, filters, limit))
    /\ UNCHANGED <<args, clock>>

Reset ==
    /\ last = NoCall
    /\ Ended("reset", <<>>, reset(self))
    /\ UNCHANGED <<args, clock>>

Update ==
    /\ last = NoCall
    /\ \E vector_id \in IdValues, vector \in VectorArgs,
          payload \in {None} \cup PayloadValues :
         Ended("update", <<vector_id, vector, payload>>,
                       update(self, vector_id, vector, payload))
    /\ UNCHANGED <<args, clock>>

\* the caller takes the outcome of the call and goes on; the adapter is
\* synchronous, so the next call starts only then
CallerContinues ==
    /\ last # NoCall
    /\ last' = NoCall
    /\ UNCHANGED <<args, self, clock>>

Next ==
    \/ Insert
    \/ Search
    \/ ListCols
    \/ CreateCol
    \/ Delete
    \/ DeleteCol
    \/ ColInfo
    \/ Get
    \/ ListOp
    \/ Reset
    \/ Update
    \/ CallerContinues

Spec == Init /\ [][Next]_vars

----------------------------------------------------------------------------
(* Properties *)

\* text a occurs in text b
IsInfix(a, b) ==
    \E k \in 0..(Len(b) - Len(a)) : \A i \in 1..Len(a) : b[k + i] = a[i]

\* the call that just ended is op
IsCall(op) == last.op = op

\* the records of the write request of the insert that just ended
SentData == last.writes[1].request_object.data

\* v is a list with at least one element
NonEmptyList(v) == DOMAIN v = {"list"} /\ v.list # <<>>

\* insert was given a non-empty payloads list and an ids list
ListsGiven == NonEmptyList(last.in.payloads) /\ DOMAIN last.in.ids = {"list"}

\* the number of (payload, id) pairs of the insert that just ended
NumPairs == Min(Len(last.in.payloads.list), Len(last.in.ids.list))

\* every payload that has an id at its position has a `data` field
PairedHaveData ==
    \A i \in 1..NumPairs : "data" \in DOMAIN last.in.payloads.list[i]

\* record i of the batch carries ids[i] and payloads[i]['data'], for every i
PairedInOrder ==
    \A i \in 1..Len(SentData) :
        /\ SentData[i].id = last.in.ids.list[i]
        /\ SentData[i].memory = last.in.payloads.list[i]["data"]

\* C1: an insert with non-empty payloads, ids of the same length and a `data`
\* field in every payload issues exactly one write request (and no read
\* request) whose batch has len(payloads) records, record i carrying ids[i]
\* and payloads[i]['data'], and, the write collaborator having taken the
\* request, returns the ids list it was given.
C1_InsertOneBatchInOrder ==
    (/\ IsCall("insert")
     /\ ListsGiven
     /\ Len(last.in.ids.list) = Len(last.in.payloads.list)
     /\ \A i \in 1..Len(last.in.payloads.list) :
            "data" \in DOMAIN last.in.payloads.list[i])
    => /\ Len(last.writes) = 1
       /\ last.reads = <<>>
       /\ Len(SentData) = Len(last.in.payloads.list)
       /\ PairedInOrder
       /\ (last.in.outcome = "ok" => last.result = Return(last.in.ids))

\* an insert of two payloads with different texts and two different ids
\* has returned
C1_Witness ==
    /\ IsCall("insert")
    /\ ListsGiven
    /\ last.in.payloads.list = <<[data |-> "a"], [data |-> "b"]>>
    /\ last.in.ids.list = <<"1", "2">>
    /\ last.result = Return(List(<<"1", "2">>))
    /\ Len(last.writes) = 1

\* C2: an insert whose payloads is empty or None returns an empty list
\* (it does not raise) and issues no write and no read request, whatever
\* ids and vectors are.
C2_EmptyPayloadsNoRequest ==
    (IsCall("insert") /\ ~NonEmptyList(last.in.payloads))
    => /\ last.result = Return(List(<<>>))
       /\ last.writes = <<>>
       /\ last.reads = <<>>

\* an insert of an empty payloads list with an ids list of two has ended
C2_Witness ==
    /\ IsCall("insert")
    /\ last.in.payloads = List(<<>>)
    /\ last.in.ids = List(<<"1", "2">>)
    /\ last.result = Return(List(<<>>))

\* C3: list_cols returns a list of exactly one element, the object name
\* passed at construction.
C3_ListColsIsObjectName ==
    IsCall("list_cols") => last.result = Return(List(<<args.dlo>>))

\* the result records of the rows whose payload text is not null, in order
RECURSIVE NonEmptyRows(_)
NonEmptyRows(response) ==
    IF response = <<>> THEN <<>>
    ELSE (IF Head(response).payload.text # "null"
          THEN <<[id |-> Head(response).id, score |-> Head(response).score,
                  payload |-> [data |-> Head(response).payload]]>>
          ELSE <<>>)
         \o NonEmptyRows(Tail(response))

\* C4: a search that the read collaborator answered returns one result
\* record (id, score, {'data': payload}) for each row whose payload is not
\* the string null, none for a row whose payload is, in the rows' order.
C4_SearchSkipsNullRows ==
    (IsCall("search") /\ last.in.outcome = "ok")
    => last.result = Return(List(NonEmptyRows(last.in.response)))

\* C5: a no-op issues no request, returns normally and leaves the
\* attributes of the adapter as they were, from every reachable state.
C5_NoOpsDoNothing ==
    [][last'.op \in NoOps
        => /\ last'.writes = <<>>
           /\ last'.reads = <<>>
           /\ last'.result.kind = "return"
           /\ self' = self]_vars

\* reset has returned on an adapter built with names other than the defaults
C5_Witness ==
    /\ IsCall("reset")
    /\ args # DefaultArgs
    /\ last.result = Return(None)

\* C6: every search issues exactly one read request and no write request,
\* and the query text of the read request contains the query string, the
\* vector-index name and the chunk name passed at construction, and the
\* limit, whatever vectors and filters are.
C6_SearchOneReadWithQuery ==
    IsCall("search")
    => /\ Len(last.reads) = 1
       /\ last.writes = <<>>
       /\ IsInfix(last.in.query.str, last.reads[1].sql)
       /\ IsInfix(args.vector_index_dlm.str, last.reads[1].sql)
       /\ IsInfix(args.chunk_dlm.str, last.reads[1].sql)
       /\ IsInfix(IntToText(last.in.limit), last.reads[1].sql)

\* a search with a limit other than the default, a filter and a vector
\* has ended
C6_Witness ==
    /\ IsCall("search")
    /\ last.in.limit = 3
    /\ last.in.filters # None
    /\ last.in.vectors # List(<<>>)
    /\ Len(last.reads) = 1

\* C7: when the collaborator fails on the request of an insert or of a
\* search, the call raises that failure and the request is the only one
\* the call has issued.
C7_FailurePropagatesOnce ==
    /\ (IsCall("insert") /\ last.writes # <<>> /\ last.in.outcome \in Errors)
        => /\ last.result = Raise(last.in.outcome)
           /\ Len(last.writes) = 1
           /\ last.reads = <<>>
    /\ (IsCall("search") /\ last.in.outcome \in Errors)
        => /\ last.result = Raise(last.in.outcome)
           /\ Len(last.reads) = 1
           /\ last.writes = <<>>

\* a search on which the read collaborator failed has ended
C7_Witness ==
    /\ IsCall("search")
    /\ last.in.outcome = "HTTPError"
    /\ last.in.response # <<>>
    /\ last.result.kind = "raise"

\* C8: the four names are stored as passed at construction and never change,
\* and every write request is addressed to the connector name and the
\* object name passed at construction.
C8_ConfigVerbatim ==
    /\ self.connector_name = args.connector_name
    /\ self.dlo = args.dlo
    /\ self.vector_index_dlm = args.vector_index_dlm
    /\ self.chunk_dlm = args.chunk_dlm
    /\ \A i \in 1..Len(last.writes) :
          /\ last.writes[i].connector_name = args.connector_name
          /\ last.writes[i].dlo = args.dlo

C10_BuildBeforeWrite ==
    IsCall("insert")
    => /\ (NonEmptyList(last.in.payloads) /\ last.in.ids = None)
            => last.result.kind = "raise" /\ last.writes = <<>>
       /\ (ListsGiven /\ ~PairedHaveData)
            => last.result.kind = "raise" /\ last.writes = <<>>
       /\ Len(last.writes) <= 1
       /\ last.writes # <<>> => (ListsGiven /\ Len(SentData) = NumPairs)

\* an insert whose second payload has no `data` field has raised
C10_Witness ==
    /\ IsCall("insert")
    /\ ListsGiven
    /\ last.in.payloads.list = <<[data |-> "a"], [note |-> "n"]>>
    /\ last.in.ids.list = <<"1", "2">>
    /\ last.result = Raise("KeyError")

=============================================================================
